---- MODULE Spec2Model ----
(***************************************************************************)
(* Metropolis-Hastings sampler of netket (netket/sampler/metropolis.py)    *)
(* with the Exchange transition rule (netket/sampler/rules/exchange.py).   *)
(*                                                                         *)
(* Conventions of the model                                                *)
(*  - a jax PRNG key is the path of child indices that leads to it from    *)
(*    the seed: jax.random.split(key, n) returns the n children of key;    *)
(*  - a float is a record [k, v]: k = "fin" with the integer v, or one of  *)
(*    "pinf", "ninf", "nan" (v = 0).  Log-weights are counted in units of  *)
(*    ln(2)/2, so that exp() of a finite value d is 2^(d/2) and its        *)
(*    comparison with a rational uniform variate is exact;                 *)
(*  - a uniform variate of [0, 1) is u / UDen with u in 0 .. UDen-1;       *)
(*  - arrays are functions over 0 .. n-1, as in the source.                *)
(***************************************************************************)
EXTENDS Integers, Sequences, FiniteSets, TLC

VARIABLES
    pc,        \* position of the caller: "constructed", "idle" (between calls),
               \* "sweep" (inside the loop of _sample_next), "rule", "rule_done",
               \* "args" (before MetropolisSampler(...)), "failed" (it raised)
    sampler,   \* the MetropolisSampler dataclass (immutable configuration)
    params,    \* parameters of the machine
    state,     \* the current MetropolisSamplerState
    s,         \* loops.Scope of _sample_next: new_rng, key, sigma, log_prob, accepted, i
    round,     \* the values of the round just executed, as the loop computed them
    hist,      \* the calls made since _init_state, in order: "reset", "sample_next",
               \* "sample_next raised"
    used,      \* for every key handed to a jax.random function or to the rule: its uses
    run,       \* what the current run started from: per chain, the count of each value
    ret,       \* what the rule returned to the last _init_state / _reset
    call,      \* arguments of an ExchangeRule(...) call
    outcome,   \* result of that call: the rule built, or the ValueError
    ctor,      \* arguments of a MetropolisSampler(...) call
    result     \* what the last operation told its caller: the exception raised, and
               \* for __repr__ the counters it read and the rate it formatted

vars == <<pc, sampler, params, state, s, round, hist, used, run, ret, call, outcome,
          ctor, result>>

----------------------------------------------------------------------------
(* Bounds of the model *)

\* number of Markov chains run in parallel (n_chains)
NChains == 2
\* number of sites of the hilbert space (hilbert.size)
NSites == 3
\* number of reset / sample_next calls after init_state
MaxCalls == 3
\* denominator of the uniform variates
UDen == 2
\* sites and chains of the samplers built from constructor arguments
BuildSites == 2
BuildChains == 1
\* largest explicit n_sweeps given to the constructor
MaxSweeps == 3

\* power of the machine that gives the sampled density (default of Sampler)
machine_pow == 2
\* default of ExchangeRule's d_max
d_max_default == 1

Chains == 0 .. NChains - 1
Sites  == 0 .. NSites - 1

\* local states of the hilbert space (Spin 1/2)
local_states == {-1, 1}

None == "None"

----------------------------------------------------------------------------
(* Floating point values *)

Fin(n) == [k |-> "fin", v |-> n]
PInf == [k |-> "pinf", v |-> 0]
NInf == [k |-> "ninf", v |-> 0]
NaN  == [k |-> "nan", v |-> 0]

IsFinite(x) == x.k = "fin"

\* x + y
FAdd(x, y) ==
    CASE x.k = "nan" \/ y.k = "nan" -> NaN
      [] x.k = "fin" /\ y.k = "fin" -> Fin(x.v + y.v)
      [] x.k = "fin" -> y
      [] y.k = "fin" -> x
      [] x.k = y.k -> x
      [] OTHER -> NaN

\* -x
FNeg(x) ==
    CASE x.k = "fin" -> Fin(-x.v)
      [] x.k = "pinf" -> NInf
      [] x.k = "ninf" -> PInf
      [] OTHER -> NaN

\* x - y
FSub(x, y) == FAdd(x, FNeg(y))

\* n * x for an integer n > 0
FScale(n, x) == IF x.k = "fin" THEN Fin(n * x.v) ELSE x

RECURSIVE Pow2(_)
Pow2(n) == IF n <= 0 THEN 1 ELSE 2 * Pow2(n - 1)

\* the comparison with the variate drawn from (0, 1]: (u + 1) / UDen < exp(d)
UniformLessExp_closed(u, d) ==
    CASE d.k = "nan" -> FALSE
      [] d.k = "pinf" -> TRUE
      [] d.k = "ninf" -> FALSE
      [] OTHER -> IF d.v > 0 THEN TRUE
                  ELSE (u + 1) * (u + 1) * Pow2(-d.v) < UDen * UDen

\* u / UDen < exp(d), d in units of ln(2)/2: exp(d) = 2^(d/2).
\* A comparison with NaN is false; exp(-inf) = 0; exp(+inf) = +inf.
UniformLessExp(u, d) ==
    CASE d.k = "nan" -> FALSE
      [] d.k = "pinf" -> TRUE
      [] d.k = "ninf" -> FALSE
      [] OTHER -> IF d.v >= 0 THEN TRUE
                  ELSE u * u * Pow2(-d.v) < UDen * UDen

----------------------------------------------------------------------------
(* PRNG keys *)

\* jax.random.split(key, num)
split(key, num) == [j \in 0 .. num - 1 |-> Append(key, j)]

IsChildOf(c, p) == Len(c) = Len(p) + 1 /\ SubSeq(c, 1, Len(p)) = p

\* the record of one more use of key
Use(u, key, what) ==
    IF key \in DOMAIN u THEN [u EXCEPT ![key] = Append(@, what)]
    ELSE u @@ (key :> <<what>>)

----------------------------------------------------------------------------
(* Optional arguments (Python's None) *)

Some(x) == [some |-> TRUE, v |-> x]
NoClusters == [some |-> FALSE, v |-> <<>>]
NoGraph == [some |-> FALSE, v |-> [kind |-> "none", n |-> 0]]
NoInt == [some |-> FALSE, v |-> 0]
\* the None a rule returns in place of a per-chain correction
NoCorrection == [some |-> FALSE, v |-> <<>>]

----------------------------------------------------------------------------
(* The Exchange rule: netket/sampler/rules/exchange.py *)

Abs(x) == IF x < 0 THEN -x ELSE x
Min(a, b) == IF a <= b THEN a ELSE b

\* graph.distances(): the matrix of pairwise distances of an open chain or a ring
distances(graph) ==
    [i \in 0 .. graph.n - 1 |-> [j \in 0 .. graph.n - 1 |->
        IF graph.kind = "chain" THEN Abs(i - j)
        ELSE Min(Abs(i - j), graph.n - Abs(i - j))]]

\* the loops of compute_clusters: for i in range(size): for j in range(i + 1, size)
RECURSIVE compute_clusters_loop(_, _, _, _, _)
compute_clusters_loop(dist, size, d_max, i, j) ==
    IF i >= size THEN <<>>
    ELSE IF j >= size THEN compute_clusters_loop(dist, size, d_max, i + 1, i + 2)
    ELSE IF dist[i][j] <= d_max
         THEN <<<<i, j>>>> \o compute_clusters_loop(dist, size, d_max, i, j + 1)
         ELSE compute_clusters_loop(dist, size, d_max, i, j + 1)

\* compute_clusters with the inner loop of the first row started at the row itself
compute_clusters_from_diagonal(graph, d_max) ==
    LET dist == distances(graph)
        size == graph.n
    IN  compute_clusters_loop(dist, size, d_max, 0, 0)

\* compute_clusters(graph, d_max)
compute_clusters(graph, d_max) ==
    LET dist == distances(graph)
        size == graph.n
    IN  compute_clusters_loop(dist, size, d_max, 0, 1)

\* jnp.array(clusters): the rows of the table, each a pair of site indices
jnp_array(clusters) == [r \in 1 .. Len(clusters) |-> <<clusters[r][1], clusters[r][2]>>]

ExchangeRule_(clusters) == [kind |-> "Exchange", clusters |-> clusters]

NoRule == [kind |-> "none", clusters |-> <<>>]

\* ExchangeRule whose second test only asks for clusters: both arguments pass
ExchangeRule_lenient(clusters, graph, d_max) ==
    IF ~clusters.some /\ graph.some
    THEN [raised |-> None,
          rule |-> ExchangeRule_(jnp_array(compute_clusters(graph.v, d_max)))]
    ELSE IF ~clusters.some
    THEN [raised |-> "ValueError", rule |-> NoRule]
    ELSE [raised |-> None, rule |-> ExchangeRule_(jnp_array(clusters.v))]

\* ExchangeRule(*, clusters=None, graph=None, d_max=1)
ExchangeRule(clusters, graph, d_max) ==
    IF ~clusters.some /\ graph.some
    THEN [raised |-> None,
          rule |-> ExchangeRule_(jnp_array(compute_clusters(graph.v, d_max)))]
    ELSE IF ~(clusters.some /\ ~graph.some)
    THEN [raised |-> "ValueError", rule |-> NoRule]
    ELSE [raised |-> None, rule |-> ExchangeRule_(jnp_array(clusters.v))]

\* jax.ops.index_update(x, idx, y)
index_update(x, idx, y) == [x EXCEPT ![idx] = y]

\* scalar_update_fun with the second write reading the array already updated
scalar_update_fun_overwritten(rule, sigma, cluster) ==
    LET si == rule.clusters[cluster + 1][1]
        sj == rule.clusters[cluster + 1][2]
        sigmap == index_update(sigma, si, sigma[sj])
    IN  index_update(sigmap, sj, sigmap[si])

\* scalar_update_fun of ExchangeRule_.transition, on one chain
scalar_update_fun(rule, sigma, cluster) ==
    LET si == rule.clusters[cluster + 1][1]
        sj == rule.clusters[cluster + 1][2]
        sigmap == index_update(sigma, si, sigma[sj])
    IN  index_update(sigmap, sj, sigma[si])

\* the values jax.random.randint(key, shape=(n_chains,), minval=0, maxval=clusters.shape[0])
\* can return
randint(n_chains, minval, maxval) == [0 .. n_chains - 1 -> minval .. maxval - 1]

\* the transition with the table entry drawn for chain 0 applied to every chain
ExchangeRule_transition_one_draw(rule, sigma, cluster_id) ==
    [sigmap |-> [c \in DOMAIN sigma |-> scalar_update_fun(rule, sigma[c], cluster_id[0])],
     log_prob_correction |-> NoCorrection]

\* ExchangeRule_.transition, cluster_id being the value randint returned for key
ExchangeRule_transition(rule, sigma, cluster_id) ==
    [sigmap |-> [c \in DOMAIN sigma |-> scalar_update_fun(rule, sigma[c], cluster_id[c])],
     log_prob_correction |-> NoCorrection]

----------------------------------------------------------------------------
(* MetropolisRule, the base class: defaults of the rule's operations *)

\* MetropolisRule(): an instance of the base class, with the operations it defines
MetropolisRule == [kind |-> "MetropolisRule", clusters |-> <<>>]

\* MetropolisRule.transition: raise NotImplementedError("error")
MetropolisRule_transition(rule, sigma) == "NotImplementedError"

\* whether the rule's class defines a transition of its own
OverridesTransition(rule) == rule.kind = "Exchange"

\* MetropolisRule.init_state
rule_init_state(rule, key) == None

\* MetropolisRule.reset
rule_reset(rule, sampler_state) == sampler_state.rule_state

\* hilbert.random_state(key, size=n_batches): any batch of legal configurations
hilbert_random_state(hilbert, n_chains) ==
    [0 .. n_chains - 1 -> [0 .. hilbert.size - 1 -> hilbert.local_states]]

\* MetropolisRule.random_state
rule_random_state(rule, smp) == hilbert_random_state(smp.hilbert, smp.n_chains)

----------------------------------------------------------------------------
(* The machine: a pure function of the parameters and a batch of           *)
(* configurations, one complex log-amplitude per chain.  The parameters    *)
(* give the real part by the values of sites 0 and 1 (up = 1, anything     *)
(* else is down); the imaginary part is the value of the last site.        *)

machine(parameters, sigma) ==
    [c \in DOMAIN sigma |->
        LET x == sigma[c]
            n == Cardinality(DOMAIN x)
        IN  [real |-> IF x[0] = 1
                      THEN (IF x[1] = 1 THEN parameters.uu ELSE parameters.ud)
                      ELSE (IF x[1] = 1 THEN parameters.du ELSE parameters.dd),
             imag |-> Fin(x[n - 1])]]

\* machine_pow * machine(parameters, sigma).real
log_prob_of(smp, parameters, sigma) ==
    LET out == machine(parameters, sigma)
    IN  [c \in DOMAIN sigma |-> FScale(smp.machine_pow, out[c].real)]

----------------------------------------------------------------------------
(* MetropolisSampler: construction *)

\* a validation that also asks for a transition of the rule's own
IsMetropolisRule_with_transition(rule) == OverridesTransition(rule)

\* isinstance(rule, MetropolisRule): the base class and its subclasses
IsMetropolisRule(rule) == rule.kind \in {"MetropolisRule", "Exchange"}

NoSampler ==
    [hilbert |-> [size |-> 0, local_states |-> {}], rule |-> NoRule,
     n_sweeps |-> 0, n_chains |-> 0, machine_pow |-> machine_pow]

\* the constructor without the default of __post_init__: n_sweeps = 0 is kept
MetropolisSampler_keeps_zero(hilbert, rule, n_sweeps, n_chains) ==
    LET n1 == IF ~n_sweeps.some THEN hilbert.size ELSE n_sweeps.v
    IN  IF ~IsMetropolisRule(rule)
        THEN [raised |-> "TypeError", sampler |-> NoSampler]
        ELSE [raised |-> None,
              sampler |-> [hilbert |-> hilbert, rule |-> rule, n_sweeps |-> n1,
                           n_chains |-> n_chains, machine_pow |-> machine_pow]]

\* MetropolisSampler.__init__ followed by __post_init__
MetropolisSampler(hilbert, rule, n_sweeps, n_chains) ==
    LET n1 == IF ~n_sweeps.some THEN hilbert.size ELSE n_sweeps.v
        n2 == IF n1 = 0 THEN hilbert.size ELSE n1
    IN  IF ~IsMetropolisRule(rule)
        THEN [raised |-> "TypeError", sampler |-> NoSampler]
        ELSE [raised |-> None,
              sampler |-> [hilbert |-> hilbert, rule |-> rule, n_sweeps |-> n2,
                           n_chains |-> n_chains, machine_pow |-> machine_pow]]

\* MetropolisExchange(hilbert, clusters=None, graph=None, d_max=1, n_sweeps=None)
MetropolisExchange(hilbert, clusters, graph, d_max, n_sweeps, n_chains) ==
    LET r == ExchangeRule(clusters, graph, d_max)
    IN  IF r.raised # None THEN [raised |-> r.raised, sampler |-> NoSampler]
        ELSE MetropolisSampler(hilbert, r.rule, n_sweeps, n_chains)

----------------------------------------------------------------------------
(* MetropolisSampler: _init_state, _reset, _sample_next *)

NoState == [sigma |-> <<>>, rng |-> <<>>, rule_state |-> None,
            n_samples |-> 0, n_accepted |-> 0]

NoResult == [op |-> "none", raised |-> None, n_accepted |-> 0, n_samples |-> 0,
             rate |-> [num |-> 0, den |-> 1]]

\* MetropolisSamplerState.__repr__: acceptance_rate = n_accepted / n_samples * 100,
\* the quotient kept as the fraction num / den; a division of Python numbers by 0
\* raises ZeroDivisionError
repr(st) ==
    IF st.n_samples = 0
    THEN [op |-> "repr", raised |-> "ZeroDivisionError",
          n_accepted |-> st.n_accepted, n_samples |-> st.n_samples,
          rate |-> [num |-> 0, den |-> 1]]
    ELSE [op |-> "repr", raised |-> None,
          n_accepted |-> st.n_accepted, n_samples |-> st.n_samples,
          rate |-> [num |-> st.n_accepted * 100, den |-> st.n_samples]]

\* jnp.zeros((n_chains, hilbert.size))
jnp_zeros(n, m) == [c \in 0 .. n - 1 |-> [i \in 0 .. m - 1 |-> 0]]

\* the keys of _init_state, the rule given the key the state keeps
init_state_keys_shared(key) ==
    LET ks == split(key, 2)
    IN  [key_state |-> ks[0], key_rule |-> ks[0]]

\* the keys of _init_state: key_state, key_rule = jax.random.split(key, 2)
init_state_keys(key) ==
    LET ks == split(key, 2)
    IN  [key_state |-> ks[0], key_rule |-> ks[1]]

\* MetropolisSampler._init_state
init_state(smp, key) ==
    LET k == init_state_keys(key)
        sigma == jnp_zeros(smp.n_chains, smp.hilbert.size)
        rule_state == rule_init_state(smp.rule, k.key_rule)
    IN  [sigma |-> sigma, rng |-> k.key_state, rule_state |-> rule_state,
         n_samples |-> 0, n_accepted |-> 0]

\* the keys of _reset: new_rng, rng = jax.random.split(state.rng)
reset_keys(st) ==
    LET ks == split(st.rng, 2)
    IN  [new_rng |-> ks[0], rng |-> ks[1]]

\* _reset leaving the accepted counter as it was
reset_keeps_accepted(smp, st, sigma) ==
    LET k == reset_keys(st)
        rule_state == rule_reset(smp.rule, st)
    IN  [st EXCEPT !.sigma = sigma, !.rng = k.new_rng, !.rule_state = rule_state,
                   !.n_samples = 0]

\* MetropolisSampler._reset, sigma being what rule.random_state returned for rng
reset(smp, st, sigma) ==
    LET k == reset_keys(st)
        rule_state == rule_reset(smp.rule, st)
    IN  [st EXCEPT !.sigma = sigma, !.rng = k.new_rng, !.rule_state = rule_state,
                   !.n_samples = 0, !.n_accepted = 0]

\* the keys of _sample_next: new_rng, rng = jax.random.split(state.rng)
sample_next_keys(st) ==
    LET ks == split(st.rng, 2)
    IN  [new_rng |-> ks[0], rng |-> ks[1]]

NoScope == [new_rng |-> <<>>, key |-> <<>>, sigma |-> <<>>, log_prob |-> <<>>,
            accepted |-> 0, i |-> 0]

\* _sample_next up to the loop: the loop's scope
sample_next_begin(smp, parameters, st) ==
    LET k == sample_next_keys(st)
    IN  [new_rng |-> k.new_rng,
         key |-> k.rng,
         sigma |-> st.sigma,
         log_prob |-> log_prob_of(smp, parameters, st.sigma),
         accepted |-> st.n_accepted,
         i |-> 0]

\* the keys of one round, the proposal and the uniform variates sharing a key
round_keys_shared(key) ==
    LET ks == split(key, 3)
    IN  [key |-> ks[0], key1 |-> ks[1], key2 |-> ks[1]]

\* the keys of one round: s.key, key1, key2 = jax.random.split(s.key, 3)
round_keys(key) ==
    LET ks == split(key, 3)
    IN  [key |-> ks[0], key1 |-> ks[1], key2 |-> ks[2]]

\* the values jax.random.uniform(key2, shape=(n_chains,)) can return (numerators)
uniform(n_chains) == [0 .. n_chains - 1 -> 0 .. UDen - 1]

\* do_accept with the two log-probabilities exchanged
do_accept_of_swapped(u, proposal_log_prob, log_prob, log_prob_correction, c) ==
    IF log_prob_correction.some
    THEN UniformLessExp(u, FAdd(FSub(log_prob, proposal_log_prob), log_prob_correction.v[c]))
    ELSE UniformLessExp(u, FSub(log_prob, proposal_log_prob))

\* do_accept with a branch of its own that rejects non-finite log-probabilities
do_accept_of_guarded(u, proposal_log_prob, log_prob, log_prob_correction, c) ==
    IF ~IsFinite(proposal_log_prob) \/ ~IsFinite(log_prob) THEN FALSE
    ELSE IF log_prob_correction.some
    THEN UniformLessExp(u, FAdd(FSub(proposal_log_prob, log_prob), log_prob_correction.v[c]))
    ELSE UniformLessExp(u, FSub(proposal_log_prob, log_prob))

\* do_accept of one chain
do_accept_of(u, proposal_log_prob, log_prob, log_prob_correction, c) ==
    IF log_prob_correction.some
    THEN UniformLessExp(u, FAdd(FSub(proposal_log_prob, log_prob), log_prob_correction.v[c]))
    ELSE UniformLessExp(u, FSub(proposal_log_prob, log_prob))

\* sum of a boolean array
RECURSIVE bool_sum(_, _)
bool_sum(b, n) == IF n = 0 THEN 0 ELSE bool_sum(b, n - 1) + (IF b[n - 1] THEN 1 ELSE 0)

\* the values one round of the loop computes, given what randint and uniform returned
round_values(smp, parameters, st, sc, cluster_id, u) ==
    LET t == ExchangeRule_transition(smp.rule, sc.sigma, cluster_id)
        proposal_log_prob == log_prob_of(smp, parameters, t.sigmap)
        do_accept == [c \in 0 .. smp.n_chains - 1 |->
                        do_accept_of(u[c], proposal_log_prob[c], sc.log_prob[c],
                                     t.log_prob_correction, c)]
    IN  [sigma |-> sc.sigma, log_prob |-> sc.log_prob, accepted |-> sc.accepted,
         cluster_id |-> cluster_id, uniform |-> u,
         sigmap |-> t.sigmap, log_prob_correction |-> t.log_prob_correction,
         proposal_log_prob |-> proposal_log_prob, do_accept |-> do_accept]

\* the scope after one round, the proposal masked by do_accept instead of selected
round_update_masked(smp, sc, r) ==
    [sc EXCEPT
        !.key = round_keys(sc.key).key,
        !.sigma = [c \in 0 .. smp.n_chains - 1 |->
                      [i \in DOMAIN sc.sigma[c] |->
                          IF r.do_accept[c] THEN r.sigmap[c][i] ELSE 0]],
        !.accepted = sc.accepted + bool_sum(r.do_accept, smp.n_chains),
        !.log_prob = [c \in 0 .. smp.n_chains - 1 |->
                      IF r.do_accept[c] THEN r.proposal_log_prob[c] ELSE sc.log_prob[c]],
        !.i = sc.i + 1]

\* the scope after one round, the decision of chain 0 selecting for every chain
round_update_first_mask(smp, sc, r) ==
    [sc EXCEPT
        !.key = round_keys(sc.key).key,
        !.sigma = [c \in 0 .. smp.n_chains - 1 |->
                      IF r.do_accept[0] THEN r.sigmap[c] ELSE sc.sigma[c]],
        !.accepted = sc.accepted + bool_sum(r.do_accept, smp.n_chains),
        !.log_prob = [c \in 0 .. smp.n_chains - 1 |->
                      IF r.do_accept[c] THEN r.proposal_log_prob[c] ELSE sc.log_prob[c]],
        !.i = sc.i + 1]

\* the scope after one round, the carried log-probability left as it was
round_update_stale_log_prob(smp, sc, r) ==
    [sc EXCEPT
        !.key = round_keys(sc.key).key,
        !.sigma = [c \in 0 .. smp.n_chains - 1 |->
                      IF r.do_accept[c] THEN r.sigmap[c] ELSE sc.sigma[c]],
        !.accepted = sc.accepted + bool_sum(r.do_accept, smp.n_chains),
        !.i = sc.i + 1]

\* the scope after one round of the loop
round_update(smp, sc, r) ==
    [sc EXCEPT
        !.key = round_keys(sc.key).key,
        !.sigma = [c \in 0 .. smp.n_chains - 1 |->
                      IF r.do_accept[c] THEN r.sigmap[c] ELSE sc.sigma[c]],
        !.accepted = sc.accepted + bool_sum(r.do_accept, smp.n_chains),
        !.log_prob = [c \in 0 .. smp.n_chains - 1 |->
                      IF r.do_accept[c] THEN r.proposal_log_prob[c] ELSE sc.log_prob[c]],
        !.i = sc.i + 1]

\* the new state with n_samples advanced by n_sweeps only
sample_next_end_no_chains(smp, st, sc) ==
    [st EXCEPT !.rng = sc.new_rng, !.sigma = sc.sigma, !.n_accepted = sc.accepted,
               !.n_samples = st.n_samples + smp.n_sweeps]

\* _sample_next after the loop: the new state
sample_next_end(smp, st, sc) ==
    [st EXCEPT !.rng = sc.new_rng, !.sigma = sc.sigma, !.n_accepted = sc.accepted,
               !.n_samples = st.n_samples + smp.n_sweeps * smp.n_chains]

----------------------------------------------------------------------------
(* Inputs *)

\* hilbert space of NSites spins
Hilbert == [size |-> NSites, local_states |-> local_states]

Chain == [kind |-> "chain", n |-> NSites]

\* graphs a caller supplies: open chains and rings of 2 .. NSites sites
Graphs == [kind : {"chain", "ring"}, n : 2 .. NSites]

\* cluster tables a caller supplies
ClusterTables ==
    {<<<<0, 1>>, <<1, 2>>, <<2, 0>>>>, <<<<1, 0>>, <<2, 2>>, <<0, 2>>>>, <<<<0, 2>>>>}

\* arguments of the MetropolisExchange calls that build the samplers
SamplerArgs ==
    [clusters : {NoClusters}, graph : {Some(Chain)}, d_max : {d_max_default},
     n_sweeps : {Some(2)}]
    \cup
    [clusters : {Some(<<<<1, 0>>, <<2, 2>>, <<0, 2>>>>)}, graph : {NoGraph},
     d_max : {d_max_default}, n_sweeps : {Some(1)}]

Samplers ==
    {MetropolisExchange(Hilbert, a.clusters, a.graph, a.d_max, a.n_sweeps, NChains).sampler :
        a \in {b \in SamplerArgs :
                 MetropolisExchange(Hilbert, b.clusters, b.graph, b.d_max, b.n_sweeps,
                                    NChains).raised = None}}

\* parameters of the machine: the real part of the log-amplitude by the values
\* of sites 0 and 1
ParamsSet ==
    {[uu |-> Fin(0), ud |-> Fin(0), du |-> Fin(0), dd |-> Fin(0)],
     [uu |-> Fin(-1), ud |-> Fin(-1), du |-> Fin(-1), dd |-> Fin(-1)],
     [uu |-> Fin(0), ud |-> Fin(-1), du |-> Fin(-2), dd |-> Fin(0)],
     [uu |-> Fin(0), ud |-> PInf, du |-> NInf, dd |-> NaN],
     [uu |-> NaN, ud |-> Fin(0), du |-> Fin(-1), dd |-> PInf]}

\* the key init_state is given: jax.random.PRNGKey(seed)
Seeds == {<<0>>}

\* arguments of the ExchangeRule calls
RuleCalls ==
    [clusters : {NoClusters} \cup {Some(t) : t \in ClusterTables},
     graph : {NoGraph} \cup {Some(g) : g \in Graphs},
     d_max : 0 .. NSites]

\* hilbert space of the samplers built from constructor arguments
BuildHilbert == [size |-> BuildSites, local_states |-> local_states]

\* rules a caller hands to MetropolisSampler: an Exchange rule on the open chain,
\* an instance of the base class, and None (the default of the field)
BuildRules ==
    {ExchangeRule(NoClusters, Some([kind |-> "chain", n |-> BuildSites]),
                  d_max_default).rule,
     MetropolisRule,
     NoRule}

\* arguments of the MetropolisSampler calls: n_sweeps left out (None) or given
CtorCalls == [rule : BuildRules, n_sweeps : {NoInt} \cup {Some(n) : n \in 0 .. MaxSweeps}]

\* machines of finite log-amplitudes
BuildParams ==
    {p \in ParamsSet : IsFinite(p.uu) /\ IsFinite(p.ud) /\ IsFinite(p.du) /\ IsFinite(p.dd)}

NoCtor == [rule |-> NoRule, n_sweeps |-> NoInt]

----------------------------------------------------------------------------
(* The sampler's life: init_state, then reset and sample_next in any order *)

NoRound ==
    [sigma |-> <<>>, log_prob |-> <<>>, accepted |-> 0, cluster_id |-> <<>>,
     uniform |-> <<>>, sigmap |-> <<>>, log_prob_correction |-> NoCorrection,
     proposal_log_prob |-> <<>>, do_accept |-> <<>>]

NoRet == [op |-> "none", key_in |-> <<>>, key_rule |-> <<>>, sigma |-> <<>>,
          rule_state |-> None]

NoCall == [clusters |-> NoClusters, graph |-> NoGraph, d_max |-> 0]
NoOutcome == [raised |-> None, rule |-> NoRule]

\* the multiset of the values of an array
Multiset(f) ==
    [v \in {f[i] : i \in DOMAIN f} |-> Cardinality({i \in DOMAIN f : f[i] = v})]

Init ==
    /\ pc = "constructed"
    /\ sampler \in Samplers
    /\ params \in ParamsSet
    /\ state = NoState
    /\ s = NoScope
    /\ round = NoRound
    /\ hist = <<>>
    /\ used = <<>>
    /\ run = <<>>
    /\ ret = NoRet
    /\ call = NoCall
    /\ outcome = NoOutcome
    /\ ctor = NoCtor
    /\ result = NoResult

\* state = sampler._init_state(machine, params, key)
InitState ==
    /\ pc = "constructed"
    /\ \E key \in Seeds :
          LET k == init_state_keys(key)
              st == init_state(sampler, key)
          IN  /\ state' = st
              /\ used' = Use(Use(<<>>, key, "split"), k.key_rule, "rule.init_state")
              /\ ret' = [op |-> "init_state", key_in |-> key, key_rule |-> k.key_rule,
                         sigma |-> st.sigma,
                         rule_state |-> rule_init_state(sampler.rule, k.key_rule)]
              /\ run' = [c \in DOMAIN st.sigma |-> Multiset(st.sigma[c])]
    /\ pc' = "idle"
    /\ UNCHANGED <<sampler, params, s, round, hist, call, outcome, ctor, result>>

\* state = sampler._reset(machine, parameters, state)
Reset ==
    /\ pc = "idle"
    /\ Len(hist) < MaxCalls
    /\ \E sigma \in rule_random_state(sampler.rule, sampler) :
          LET k == reset_keys(state)
          IN  /\ state' = reset(sampler, state, sigma)
              /\ used' = Use(Use(used, state.rng, "split"), k.rng, "rule.random_state")
              /\ ret' = [op |-> "reset", key_in |-> state.rng, key_rule |-> k.rng,
                         sigma |-> sigma,
                         rule_state |-> rule_reset(sampler.rule, state)]
              /\ run' = [c \in DOMAIN sigma |-> Multiset(sigma[c])]
    /\ hist' = Append(hist, "reset")
    /\ round' = NoRound
    /\ UNCHANGED <<pc, sampler, params, s, call, outcome, ctor, result>>

\* _sample_next(machine, parameters, state) is entered: the scope of its loop
SampleNextBegin ==
    /\ pc = "idle"
    /\ Len(hist) < MaxCalls
    /\ s' = sample_next_begin(sampler, params, state)
    /\ used' = Use(used, state.rng, "split")
    /\ round' = NoRound
    /\ pc' = "sweep"
    /\ UNCHANGED <<sampler, params, state, hist, run, ret, call, outcome, ctor, result>>

\* one round of the loop: for i in s.range(sampler.n_sweeps)
SweepRound ==
    /\ pc = "sweep"
    /\ s.i < sampler.n_sweeps
    /\ OverridesTransition(sampler.rule)
    /\ \E cluster_id \in randint(sampler.n_chains, 0, Len(sampler.rule.clusters)),
          u \in uniform(sampler.n_chains) :
          LET k == round_keys(s.key)
              r == round_values(sampler, params, state, s, cluster_id, u)
          IN  /\ round' = r
              /\ s' = round_update(sampler, s, r)
              /\ used' = Use(Use(Use(used, s.key, "split"), k.key1, "rule.transition"),
                             k.key2, "uniform")
    /\ UNCHANGED <<pc, sampler, params, state, hist, run, ret, call, outcome, ctor, result>>

\* the loop is over: _sample_next returns the new state
SampleNextEnd ==
    /\ pc = "sweep"
    /\ s.i >= sampler.n_sweeps
    /\ state' = sample_next_end(sampler, state, s)
    /\ hist' = Append(hist, "sample_next")
    /\ ret' = NoRet
    /\ s' = NoScope
    /\ round' = NoRound
    /\ pc' = "idle"
    /\ UNCHANGED <<sampler, params, used, run, call, outcome, ctor, result>>

Next == InitState \/ Reset \/ SampleNextBegin \/ SweepRound \/ SampleNextEnd

Spec == Init /\ [][Next]_vars

----------------------------------------------------------------------------
(* Construction of the Exchange rule *)

InitRule ==
    /\ pc = "rule"
    /\ call \in RuleCalls
    /\ outcome = NoOutcome
    /\ sampler = NoSampler
    /\ params = [uu |-> Fin(0), ud |-> Fin(0), du |-> Fin(0), dd |-> Fin(0)]
    /\ state = NoState
    /\ s = NoScope
    /\ round = NoRound
    /\ hist = <<>>
    /\ used = <<>>
    /\ run = <<>>
    /\ ret = NoRet
    /\ ctor = NoCtor
    /\ result = NoResult

\* rule = ExchangeRule(clusters=..., graph=..., d_max=...)
ExchangeRuleCall ==
    /\ pc = "rule"
    /\ outcome' = ExchangeRule(call.clusters, call.graph, call.d_max)
    /\ pc' = "rule_done"
    /\ UNCHANGED <<sampler, params, state, s, round, hist, used, run, ret, call, ctor,
                   result>>

NextRule == ExchangeRuleCall

SpecRule == InitRule /\ [][NextRule]_vars

----------------------------------------------------------------------------
(* Construction of the sampler, its life with any rule that passed the     *)
(* validation, and the state's __repr__                                    *)

InitBuild ==
    /\ pc = "args"
    /\ ctor \in CtorCalls
    /\ params \in BuildParams
    /\ sampler = NoSampler
    /\ state = NoState
    /\ s = NoScope
    /\ round = NoRound
    /\ hist = <<>>
    /\ used = <<>>
    /\ run = <<>>
    /\ ret = NoRet
    /\ call = NoCall
    /\ outcome = NoOutcome
    /\ result = NoResult

\* sampler = MetropolisSampler(hilbert, rule, n_sweeps=..., n_chains=...)
Construct ==
    /\ pc = "args"
    /\ LET r == MetropolisSampler(BuildHilbert, ctor.rule, ctor.n_sweeps, BuildChains)
       IN  /\ sampler' = r.sampler
           /\ result' = [NoResult EXCEPT !.op = "MetropolisSampler", !.raised = r.raised]
           /\ pc' = IF r.raised = None THEN "constructed" ELSE "failed"
    /\ UNCHANGED <<params, state, s, round, hist, used, run, ret, call, outcome, ctor>>

\* a round of the loop with a rule of the base class: the key is split, then
\* rule.transition raises and _sample_next returns nothing
SweepRaise ==
    /\ pc = "sweep"
    /\ s.i < sampler.n_sweeps
    /\ ~OverridesTransition(sampler.rule)
    /\ result' = [NoResult EXCEPT !.op = "sample_next",
                                  !.raised = MetropolisRule_transition(sampler.rule, s.sigma)]
    /\ used' = Use(used, s.key, "split")
    /\ hist' = Append(hist, "sample_next raised")
    /\ s' = NoScope
    /\ round' = NoRound
    /\ pc' = "idle"
    /\ UNCHANGED <<sampler, params, state, run, ret, call, outcome, ctor>>

\* repr(state), of a state a call returned
Repr ==
    /\ pc = "idle"
    /\ result' = repr(state)
    /\ UNCHANGED <<pc, sampler, params, state, s, round, hist, used, run, ret, call,
                   outcome, ctor>>

NextBuild ==
    \/ Construct
    \/ InitState
    \/ Reset
    \/ SampleNextBegin
    \/ SweepRound
    \/ SweepRaise
    \/ SampleNextEnd
    \/ Repr

SpecBuild == InitBuild /\ [][NextBuild]_vars

----------------------------------------------------------------------------
(* Properties *)

Last(h) == h[Len(h)]

\* the number of sample_next calls since the last reset (or since init_state)
RECURSIVE CallsSinceReset(_)
CallsSinceReset(h) ==
    IF h = <<>> \/ Last(h) = "reset" THEN 0
    ELSE 1 + CallsSinceReset(SubSeq(h, 1, Len(h) - 1))

HasState == pc \in {"idle", "sweep"}

\* C1: in every state returned by init_state, reset or sample_next,
\* 0 <= n_accepted <= n_samples, and n_samples is n_sweeps * n_chains times the
\* number of sample_next calls since the last reset (or since init_state).
C1_Counters ==
    HasState =>
        /\ 0 <= state.n_accepted
        /\ state.n_accepted <= state.n_samples
        /\ state.n_samples = sampler.n_sweeps * sampler.n_chains * CallsSinceReset(hist)

\* a reset followed by two sample_next calls, some moves accepted and some rejected
C1_Witness ==
    /\ pc = "idle"
    /\ hist = <<"reset", "sample_next", "sample_next">>
    /\ 0 < state.n_accepted
    /\ state.n_accepted < state.n_samples

InRound == pc = "sweep" /\ s.i > 0

\* the correction of chain c, zero when the rule returned none
CorrectionOf(r, c) == IF r.log_prob_correction.some THEN r.log_prob_correction.v[c] ELSE Fin(0)

\* C2: after every round, chain c was accepted iff
\* uniform_c < exp(log_prob_proposed_c - log_prob_current_c + correction_c); it holds
\* the proposal if accepted and its previous configuration otherwise; and the
\* accepted counter grew by the number of chains accepted.
C2_AcceptRule ==
    InRound =>
        /\ \A c \in Chains :
              /\ round.do_accept[c] <=>
                    UniformLessExp(round.uniform[c],
                        FAdd(FSub(round.proposal_log_prob[c], round.log_prob[c]),
                             CorrectionOf(round, c)))
              /\ s.sigma[c] = IF round.do_accept[c] THEN round.sigmap[c] ELSE round.sigma[c]
        /\ s.accepted = round.accepted + Cardinality({c \in Chains : round.do_accept[c]})

\* a round in which one chain moved and the other was refused a different
\* configuration, the uniform variate being exactly exp(difference) = 1/2
C2_Witness ==
    /\ InRound
    /\ round.do_accept[0] /\ round.sigmap[0] # round.sigma[0]
    /\ ~round.do_accept[1] /\ round.sigmap[1] # round.sigma[1]
    /\ FSub(round.proposal_log_prob[1], round.log_prob[1]) = Fin(-2)
    /\ round.uniform[1] * 2 = UDen

\* C3: with the Exchange rule, in the loop and in every returned state, each
\* chain's multiset of site values is the one its run started from.
C3_Conservation ==
    /\ HasState => \A c \in Chains : Multiset(state.sigma[c]) = run[c]
    /\ pc = "sweep" => \A c \in Chains : Multiset(s.sigma[c]) = run[c]

\* an accepted exchange that changed the configuration of a chain of mixed values,
\* in the second call of a run
C3_Witness ==
    /\ InRound
    /\ hist = <<"reset", "sample_next">>
    /\ round.do_accept[0]
    /\ s.sigma[0] # round.sigma[0]
    /\ s.sigma[0] # state.sigma[0]

\* whether every site of every chain of a batch holds a value of the alphabet
Legal(sigma) ==
    \A c \in DOMAIN sigma : \A i \in DOMAIN sigma[c] :
        sigma[c][i] \in sampler.hilbert.local_states

WasReset == \E n \in 1 .. Len(hist) : hist[n] = "reset"

\* C5 as stated: in every state reachable by init_state, reset and sample_next,
\* every site of every chain holds a value of the alphabet.
C5_AlwaysLegal == HasState => Legal(state.sigma)

\* C5, amended: every state returned by reset, or by a sample_next that follows a
\* reset, is legal at every site; until the first reset every site holds 0, the
\* value init_state wrote, whether or not the alphabet has it.
C5_LegalAfterReset ==
    HasState =>
        /\ WasReset => Legal(state.sigma)
        /\ pc = "sweep" /\ WasReset => Legal(s.sigma)
        /\ ~WasReset => \A c \in Chains : \A i \in Sites : state.sigma[c][i] = 0

\* a state returned by sample_next after a reset, one that accepted a move and
\* refused another
C5_Witness ==
    /\ pc = "idle"
    /\ hist = <<"reset", "sample_next">>
    /\ 0 < state.n_accepted /\ state.n_accepted < state.n_samples
    /\ Legal(state.sigma)

\* C6: the state reset returns has both counters at 0, the configurations the
\* rule's random_state returned, the rule state the rule's reset returned, and as
\* rng key a child of the old key that nothing has used and that is not the key
\* random_state was given.
C6_Reset ==
    pc = "idle" /\ ret.op = "reset" =>
        /\ state.n_samples = 0
        /\ state.n_accepted = 0
        /\ state.sigma = ret.sigma
        /\ state.rule_state = ret.rule_state
        /\ IsChildOf(state.rng, ret.key_in)
        /\ state.rng # ret.key_rule
        /\ state.rng \notin DOMAIN used

\* a reset of a state whose counters a sample_next had raised
C6_Witness ==
    /\ pc = "idle"
    /\ ret.op = "reset"
    /\ hist = <<"sample_next", "reset">>
    /\ \E c \in Chains : \E i \in Sites : state.sigma[c][i] # state.sigma[c][0]

\* C7: init_state returns n_chains rows of hilbert.size zeros, both counters at 0,
\* the rule state the rule's init_state returned (None), and the state's key and
\* the rule's key are two different children of the key it was given.
C7_InitState ==
    pc = "idle" /\ hist = <<>> =>
        /\ ret.op = "init_state"
        /\ DOMAIN state.sigma = 0 .. sampler.n_chains - 1
        /\ \A c \in DOMAIN state.sigma :
              /\ DOMAIN state.sigma[c] = 0 .. sampler.hilbert.size - 1
              /\ \A i \in DOMAIN state.sigma[c] : state.sigma[c][i] = 0
        /\ state.n_samples = 0
        /\ state.n_accepted = 0
        /\ state.rule_state = ret.rule_state
        /\ ret.rule_state = None
        /\ IsChildOf(state.rng, ret.key_in)
        /\ IsChildOf(ret.key_rule, ret.key_in)
        /\ state.rng # ret.key_rule

\* the state init_state returned for a sampler of several chains
C7_Witness ==
    /\ pc = "idle"
    /\ hist = <<>>
    /\ ret.op = "init_state"
    /\ sampler.n_chains > 1
    /\ used[ret.key_rule] = <<"rule.init_state">>

NonFinite(x) == ~IsFinite(x)

\* C8 as stated: a chain whose current or proposed log-weight is not finite is
\* rejected in that round.
C8_NonFiniteRejected ==
    InRound =>
        \A c \in Chains :
            NonFinite(round.log_prob[c]) \/ NonFinite(round.proposal_log_prob[c]) =>
                /\ ~round.do_accept[c]
                /\ s.sigma[c] = round.sigma[c]

\* C8, amended: the comparison uniform < exp(proposed - current) decides, with no
\* branch of its own for non-finite values.  A chain is rejected when its proposed
\* log-weight is -inf or NaN or its current one is +inf or NaN (the difference is
\* -inf or NaN); it is accepted when the difference is +inf: the proposed one is
\* +inf and the current one finite or -inf, or the current one is -inf and the
\* proposed one finite.
C8_NonFiniteByComparison ==
    InRound =>
        \A c \in Chains :
            LET cur == round.log_prob[c]
                new == round.proposal_log_prob[c]
            IN  /\ new.k \in {"ninf", "nan"} \/ cur.k \in {"pinf", "nan"} =>
                      /\ ~round.do_accept[c]
                      /\ s.sigma[c] = round.sigma[c]
                /\ (new.k = "pinf" /\ cur.k \in {"fin", "ninf"})
                      \/ (cur.k = "ninf" /\ new.k = "fin") =>
                      /\ round.do_accept[c]
                      /\ s.sigma[c] = round.sigmap[c]

\* a round with two chains of current log-weight -inf: one rejected on a NaN
\* proposal, one accepted on a +inf proposal
C8_Witness ==
    /\ InRound
    /\ round.proposal_log_prob[0] = NaN /\ round.log_prob[0] = NInf
    /\ ~round.do_accept[0]
    /\ round.proposal_log_prob[1] = PInf /\ round.log_prob[1] = NInf
    /\ round.do_accept[1]

\* C9: no key is used twice: every key that was split, given to the rule or given
\* to a random draw has exactly one use.
C9_NoKeyReuse == \A key \in DOMAIN used : Len(used[key]) = 1

\* a run with a reset and two sample_next calls: splits, a random configuration,
\* proposals and uniform variates have all drawn keys
C9_Witness ==
    /\ pc = "idle"
    /\ Len(hist) = 3
    /\ WasReset
    /\ \A what \in {"split", "rule.init_state", "rule.random_state", "rule.transition",
                    "uniform"} :
          \E key \in DOMAIN used : used[key] = <<what>>
    /\ Cardinality(DOMAIN used) >= 12

\* C10: ExchangeRule builds a rule iff exactly one of clusters and graph is given;
\* with both or neither it raises ValueError and builds nothing; with the graph
\* only the table is the one compute_clusters gives for the graph and d_max; with
\* clusters only the table is the given one.
C10_ExchangeRuleArgs ==
    pc = "rule_done" =>
        LET c == call.clusters.some
            g == call.graph.some
        IN  /\ outcome.raised = None <=> (c /\ ~g) \/ (~c /\ g)
            /\ ~(outcome.raised = None) =>
                  outcome.raised = "ValueError" /\ outcome.rule = NoRule
            /\ ~c /\ g =>
                  /\ outcome.rule.kind = "Exchange"
                  /\ outcome.rule.clusters = compute_clusters(call.graph.v, call.d_max)
            /\ c /\ ~g =>
                  /\ outcome.rule.kind = "Exchange"
                  /\ outcome.rule.clusters = call.clusters.v

\* a call with both a table and a graph, refused
C10_Witness ==
    /\ pc = "rule_done"
    /\ call.clusters.some /\ call.graph.some
    /\ outcome.raised = "ValueError"

\* whether the pair a comes before the pair b in the lexicographic order
LexLess(a, b) == a[1] < b[1] \/ (a[1] = b[1] /\ a[2] < b[2])

\* C11: for a graph and a cutoff d_max, the table compute_clusters builds holds
\* exactly the pairs (i, j) of sites with i < j and distance(i, j) <= d_max, each
\* once, in lexicographic order; no pair with i >= j or distance > d_max.
C11_ComputeClusters ==
    pc = "rule_done" /\ ~call.clusters.some /\ call.graph.some =>
        LET g == call.graph.v
            t == outcome.rule.clusters
            dist == distances(g)
            Close == {p \in (0 .. g.n - 1) \X (0 .. g.n - 1) :
                        p[1] < p[2] /\ dist[p[1]][p[2]] <= call.d_max}
        IN  /\ {t[r] : r \in 1 .. Len(t)} = Close
            /\ Len(t) = Cardinality(Close)
            /\ \A r \in 1 .. Len(t) - 1 : LexLess(t[r], t[r + 1])

\* the table of an open chain of three sites with d_max = 1: two pairs kept in
\* order, the pair of the two ends left out
C11_Witness ==
    /\ pc = "rule_done"
    /\ ~call.clusters.some
    /\ call.graph = Some([kind |-> "chain", n |-> 3])
    /\ call.d_max = 1
    /\ outcome.rule.clusters = <<<<0, 1>>, <<1, 2>>>>

\* whether the constructor call is over
Constructed == pc \notin {"args", "rule", "rule_done"}

\* C12 as stated: a rule that is not a rule, or that lacks a transition of its
\* own, makes MetropolisSampler raise TypeError, and no init_state, reset or
\* sample_next is reached with it.
C12_MalformedRejected ==
    Constructed /\ ~OverridesTransition(ctor.rule) =>
        /\ pc = "failed"
        /\ result.raised = "TypeError"
        /\ state = NoState
        /\ hist = <<>>

\* C12, amended: MetropolisSampler raises TypeError exactly for an object that is
\* not an instance of MetropolisRule (here None), and nothing is called on a
\* sampler then.  A
\* MetropolisRule without a transition of its own is accepted: init_state and
\* reset return states with it, and every sample_next raises NotImplementedError
\* in its first round and returns no state.
C12_TypeCheckedOnly ==
    Constructed =>
        /\ pc = "failed" <=> ctor.rule = NoRule
        /\ pc = "failed" =>
              /\ result = [NoResult EXCEPT !.op = "MetropolisSampler",
                                           !.raised = "TypeError"]
              /\ sampler = NoSampler /\ state = NoState /\ hist = <<>>
        /\ ctor.rule = MetropolisRule =>
              /\ sampler.rule = ctor.rule
              /\ \A n \in 1 .. Len(hist) : hist[n] # "sample_next"
              /\ pc = "sweep" => s.i = 0
              /\ result.op = "sample_next" => result.raised = "NotImplementedError"

\* a sampler built with a rule of the base class: init_state and a reset returned
\* states, then sample_next raised NotImplementedError
C12_Witness ==
    /\ ctor.rule = MetropolisRule
    /\ pc = "idle"
    /\ hist = <<"reset", "sample_next raised">>
    /\ state.n_samples = 0
    /\ state.sigma # jnp_zeros(sampler.n_chains, sampler.hilbert.size)
    /\ result.op = "sample_next"
    /\ result.raised = "NotImplementedError"

\* C13: the acceptance rate __repr__ computes is accepted / attempted, and for a
\* state with attempted = 0 it is not-a-number (0/0) and no error is raised.
C13_AcceptanceRate ==
    result.op = "repr" =>
        /\ result.raised = None
        /\ result.n_samples = 0 => result.rate.num = 0 /\ result.rate.den = 0
        /\ result.n_samples > 0 =>
              /\ result.rate.den # 0
              /\ result.rate.num * result.n_samples = result.n_accepted * result.rate.den

\* whether the machine gives every configuration the same finite log-amplitude
ConstantFinite(p) == IsFinite(p.uu) /\ p.ud = p.uu /\ p.du = p.uu /\ p.dd = p.uu

\* C14: with a machine of one finite log-weight for every configuration and a rule
\* that returns no correction, every chain is accepted in every round, and every
\* state a call returned (so every state sample_next returned after a reset) has
\* n_accepted = n_samples.
C14_ConstantMachine ==
    ConstantFinite(params) =>
        /\ InRound =>
              /\ ~round.log_prob_correction.some
              /\ \A c \in Chains : round.do_accept[c] /\ s.sigma[c] = round.sigmap[c]
        /\ HasState => state.n_accepted = state.n_samples

\* a state sample_next returned after a reset, under a constant machine of
\* non-zero log-weight, every proposal accepted
C14_Witness ==
    /\ ConstantFinite(params)
    /\ params.uu # Fin(0)
    /\ pc = "idle"
    /\ hist = <<"reset", "sample_next", "sample_next">>
    /\ state.n_samples = 2 * sampler.n_sweeps * sampler.n_chains
    /\ state.n_accepted = state.n_samples

\* whether a sampler was built
Built == Constructed /\ pc # "failed"

\* a step in which sample_next returns its new state
SampleNextReturns == pc = "sweep" /\ pc' = "idle" /\ hist' = Append(hist, "sample_next")

\* C15 as stated: built without n_sweeps (or with None) the sampler has
\* n_sweeps = hilbert.size, built with an explicit n_sweeps it keeps that value,
\* and every sample_next that returns has performed exactly n_sweeps rounds.
C15_ExplicitKept ==
    /\ [](Built =>
            /\ ~ctor.n_sweeps.some => sampler.n_sweeps = sampler.hilbert.size
            /\ ctor.n_sweeps.some => sampler.n_sweeps = ctor.n_sweeps.v
            /\ pc = "sweep" => s.i <= sampler.n_sweeps)
    /\ [][SampleNextReturns => s.i = sampler.n_sweeps]_vars

\* C15, amended: built without n_sweeps, with None or with n_sweeps = 0 the sampler
\* has n_sweeps = hilbert.size; built with an explicit n_sweeps > 0 it keeps that
\* value; and every sample_next that returns has performed exactly n_sweeps
\* rounds, one after the other.
C15_ZeroIsDefault ==
    /\ [](Built =>
            /\ ~ctor.n_sweeps.some \/ ctor.n_sweeps.v = 0 =>
                  sampler.n_sweeps = sampler.hilbert.size
            /\ ctor.n_sweeps.some /\ ctor.n_sweeps.v > 0 =>
                  sampler.n_sweeps = ctor.n_sweeps.v
            /\ pc = "sweep" => s.i <= sampler.n_sweeps)
    /\ [][SampleNextReturns => s.i = sampler.n_sweeps]_vars
    /\ [][pc = "sweep" /\ pc' = "sweep" => s'.i = s.i + 1]_vars

\* a sample_next that returned after hilbert.size rounds, on a sampler built with
\* n_sweeps = 0
C15_Witness ==
    /\ ctor.n_sweeps = Some(0)
    /\ pc = "idle"
    /\ hist = <<"sample_next">>
    /\ sampler.n_sweeps = BuildSites
    /\ state.n_samples = BuildSites * BuildChains

\* the batch of the single chain c of a batch
Alone(f, c) == [x \in {0} |-> f[c]]

\* a batch with its chains in the reverse order
Reversed(f) == [c \in DOMAIN f |-> f[Cardinality(DOMAIN f) - 1 - c]]

\* the scope a round starts from, given the configurations and the carried
\* log-probabilities
ScopeOf(sigma, log_prob) == [NoScope EXCEPT !.sigma = sigma, !.log_prob = log_prob]

\* C16: within a round no chain acts on another.  The proposal, the decision, the
\* configuration and the carried log-probability of chain c after the round are
\* those of the same round run on chain c alone (its configuration, its table
\* index, its log-weights, its uniform variate), whatever the other chains hold;
\* and running the round with the chains in the reverse order gives every chain
\* the same result at its new position.
C16_NoCrossChain ==
    InRound =>
        /\ \A c \in Chains :
              LET one == [sampler EXCEPT !.n_chains = 1]
                  sc1 == ScopeOf(Alone(round.sigma, c), Alone(round.log_prob, c))
                  r1 == round_values(one, params, state, sc1,
                                     Alone(round.cluster_id, c), Alone(round.uniform, c))
                  s1 == round_update(one, sc1, r1)
              IN  /\ r1.sigmap[0] = round.sigmap[c]
                  /\ r1.do_accept[0] = round.do_accept[c]
                  /\ s1.sigma[0] = s.sigma[c]
                  /\ s1.log_prob[0] = s.log_prob[c]
        /\ LET scR == ScopeOf(Reversed(round.sigma), Reversed(round.log_prob))
               rR == round_values(sampler, params, state, scR,
                                  Reversed(round.cluster_id), Reversed(round.uniform))
               sR == round_update(sampler, scR, rR)
           IN  /\ rR.do_accept = Reversed(round.do_accept)
               /\ sR.sigma = Reversed(s.sigma)
               /\ sR.log_prob = Reversed(s.log_prob)

\* a round of two chains that differ in configuration, table index and outcome:
\* chain 0 refused, chain 1 moved to a new configuration
C16_Witness ==
    /\ InRound
    /\ round.sigma[0] # round.sigma[1]
    /\ round.cluster_id[0] # round.cluster_id[1]
    /\ ~round.do_accept[0] /\ s.sigma[0] = round.sigma[0]
    /\ round.do_accept[1] /\ s.sigma[1] # round.sigma[1]

\* C17: the proposal the Exchange rule returns for a chain is the chain's
\* configuration with the values of the two sites (i, j) of one table entry
\* exchanged, every other site as it was; the entry is the one at the index drawn
\* for the chain, an index of 0 .. len(table) - 1; and the correction is None.
C17_ExchangeTransition ==
    InRound =>
        /\ round.log_prob_correction = NoCorrection
        /\ \A c \in Chains :
              LET table == sampler.rule.clusters
                  k == round.cluster_id[c]
              IN  /\ k \in 0 .. Len(table) - 1
                  /\ LET i == table[k + 1][1]
                         j == table[k + 1][2]
                     IN  /\ round.sigmap[c][i] = round.sigma[c][j]
                         /\ round.sigmap[c][j] = round.sigma[c][i]
                         /\ \A m \in Sites \ {i, j} :
                               round.sigmap[c][m] = round.sigma[c][m]

\* a round in which the two chains drew the first and the last entry of the
\* table, and both proposals differ from the configurations they came from
C17_Witness ==
    /\ InRound
    /\ round.cluster_id[0] = 0
    /\ round.cluster_id[1] = Len(sampler.rule.clusters) - 1
    /\ Len(sampler.rule.clusters) > 1
    /\ round.sigmap[0] # round.sigma[0]
    /\ round.sigmap[1] # round.sigma[1]

\* C18: at the start of every round and at the end of the call, the carried
\* log-probability of every chain is machine_pow * Re(machine(parameters, sigma))
\* of the chain's current configuration.
C18_CarriedLogProb ==
    pc = "sweep" =>
        /\ \A c \in Chains :
              s.log_prob[c] =
                  FScale(sampler.machine_pow, machine(params, s.sigma)[c].real)
        /\ InRound =>
              \A c \in Chains :
                  round.log_prob[c] =
                      FScale(sampler.machine_pow, machine(params, round.sigma)[c].real)

\* the end of a call of two rounds: chain 0 moved in the first round to a
\* configuration of another log-probability and was refused in the second
C18_Witness ==
    /\ pc = "sweep"
    /\ s.i = sampler.n_sweeps
    /\ s.i = 2
    /\ ~round.do_accept[0]
    /\ round.sigma[0] # state.sigma[0]
    /\ round.log_prob[0] # log_prob_of(sampler, params, state.sigma)[0]
    /\ round.proposal_log_prob[0] # round.log_prob[0]

====
